---- MODULE Spec2Model ----
(***************************************************************************)
(* A model of candidate_solution.py: the SQLite store, clean_database, the *)
(* ingestion endpoint create_pokemon with get_or_create_id, and the        *)
(* ability and trainer lookup endpoints.                                   *)
(*                                                                         *)
(* A name is a sequence of one-character strings, so that Python's         *)
(* str.strip/capitalize/title/lower and SQLite's TRIM/LOWER are computed   *)
(* character by character.  SQL NULL is the value NULL below.              *)
(***************************************************************************)
EXTENDS Integers, Sequences, FiniteSets, TLC

VARIABLES
    db,         \* the committed store: what any connection sees after commit
    tx,         \* the store as seen through the open connection (with uncommitted writes)
    cpc,        \* clean_database: position in the routine
    table_i,    \* clean_database: index of the table being processed
    calls,      \* clean_database: calls made so far
    okRuns,     \* clean_database: calls that reached conn.commit()
    snap,       \* history: the committed store when the current call started
    preDedup,   \* history: each table as it stood right before its dedup DELETE
    ipc,        \* create_pokemon: position in the handler
    poke_data,  \* create_pokemon: the external record fetched
    loc,        \* create_pokemon: local variables and cursor/connection counters
    response,   \* the HTTP response of the last finished create_pokemon call
    ingests,    \* create_pokemon: calls made so far
    lookup      \* the last lookup request (by ability or by pokemon) and its response

vars == <<db, tx, cpc, table_i, calls, okRuns, snap, preDedup,
          ipc, poke_data, loc, response, ingests, lookup>>

cleanVars == <<cpc, table_i, calls, okRuns, preDedup>>
serveVars == <<ipc, poke_data, loc, response, ingests, lookup>>
ingestVars == <<ipc, poke_data, loc, response, ingests>>

-----------------------------------------------------------------------------
(* Bounds *)

\* extra seed rows put into one table before clean_database runs
MaxExtra == 2
\* clean_database calls in one behaviour
MaxCalls == 2
\* create_pokemon calls in one behaviour
MaxIngests == 2

-----------------------------------------------------------------------------
(* Characters and strings *)

Lowers == <<"a","b","c","d","e","f","g","h","i","j","k","l","m",
            "n","o","p","q","r","s","t","u","v","w","x","y","z">>
Uppers == <<"A","B","C","D","E","F","G","H","I","J","K","L","M",
            "N","O","P","Q","R","S","T","U","V","W","X","Y","Z">>

NULL == <<"NULL">>

LowerSet == {Lowers[i] : i \in 1..26}
UpperSet == {Uppers[i] : i \in 1..26}

\* the case mappings of the ASCII letters, as tables
LowerOf == [c \in UpperSet |-> Lowers[CHOOSE i \in 1..26 : Uppers[i] = c]]
UpperOf == [c \in LowerSet |-> Uppers[CHOOSE i \in 1..26 : Lowers[i] = c]]

IsLower(c) == c \in LowerSet
IsUpper(c) == c \in UpperSet
IsCased(c) == IsLower(c) \/ IsUpper(c)
ToLower(c) == IF IsUpper(c) THEN LowerOf[c] ELSE c
ToUpper(c) == IF IsLower(c) THEN UpperOf[c] ELSE c

\* Python's str.isspace characters that occur in the seed data
IsSpace(c) == c \in {" ", "\t"}

\* the only character SQLite's one-argument TRIM removes
IsBlank(c) == c = " "

SetMin(S) == CHOOSE x \in S : \A y \in S : x <= y
SetMax(S) == CHOOSE x \in S : \A y \in S : x >= y

\* the slice of s between the first and the last of the positions keep
Slice(s, keep) ==
    IF keep = {} THEN <<>> ELSE SubSeq(s, SetMin(keep), SetMax(keep))

\* str.strip(): leading and trailing whitespace removed
strip(s) == Slice(s, {i \in 1..Len(s) : ~IsSpace(s[i])})

\* str.lower()
lower(s) == [i \in 1..Len(s) |-> ToLower(s[i])]

\* str.capitalize(): first character upper-cased, all the others lower-cased
capitalize(s) == [i \in 1..Len(s) |-> IF i = 1 THEN ToUpper(s[i]) ELSE ToLower(s[i])]

\* str.title(): a cased character is upper-cased after an uncased one (or at
\* the start) and lower-cased after a cased one
title(s) ==
    [i \in 1..Len(s) |->
        IF i = 1 \/ ~IsCased(s[i-1]) THEN ToUpper(s[i]) ELSE ToLower(s[i])]

\* SQLite TRIM(X): only spaces are removed; TRIM(NULL) is NULL
SqlTrim(s) ==
    IF s = NULL THEN NULL ELSE Slice(s, {i \in 1..Len(s) : ~IsBlank(s[i])})

\* SQLite LOWER(X) on ASCII text; LOWER(NULL) is NULL
SqlLower(s) == IF s = NULL THEN NULL ELSE lower(s)

\* SQL "a = b": never true when either side is NULL
SqlEq(a, b) == a # NULL /\ b # NULL /\ a = b

-----------------------------------------------------------------------------
(* Names of the seed data and of the cleaner's tables *)

N_Fire        == <<"F","i","r","e">>
N_Water       == <<"W","a","t","e","r">>
N_Grass       == <<"G","r","a","s","s">>
N_Blaze       == <<"B","l","a","z","e">>
N_Torrent     == <<"T","o","r","r","e","n","t">>
N_Misty       == <<"M","i","s","t","y">>
N_Charmander  == <<"C","h","a","r","m","a","n","d","e","r">>
N_Squirtle    == <<"S","q","u","i","r","t","l","e">>
N_Pikachu     == <<"P","i","k","a","c","h","u">>
N_Electric    == <<"E","l","e","c","t","r","i","c">>
N_Poison      == <<"P","o","i","s","o","n">>
N_GaryOak     == <<"G","a","r","y"," ","O","a","k">>
N_AshKetchum  == <<"A","s","h"," ","K","e","t","c","h","u","m">>
N_ProfOak     == <<"P","r","o","f","e","s","s","o","r"," ","O","a","k">>

K_Pikuchu     == <<"P","i","k","u","c","h","u">>
K_gras        == <<"g","r","a","s">>
K_fir         == <<"f","i","r">>
K_eletric     == <<"e","l","e","t","r","i","c">>
K_Charmanderr == <<"C","h","a","r","m","a","n","d","e","r","r">>
K_GaryOak     == <<"G","a","r","y"," ","o","a","k">>
K_AshKetchum  == <<"A","s","h"," ","k","e","t","c","h","u","m">>
K_ProfOak     == <<"P","r","o","f","e","s","s","o","r"," ","o","a","k">>
K_Poision     == <<"P","o","i","s","i","o","n">>

D_Remove      == <<"R","e","m","o","v","e"," ","t","h","i","s"," ",
                   "a","b","i","l","i","t","y">>
D_Dashes      == <<"-","-","-">>
D_Empty       == <<>>
D_Marks       == <<"?","?","?">>

\* the correction mapping, as <<misspelling, correction>> pairs
misspellings ==
    { <<K_Pikuchu, N_Pikachu>>, <<K_gras, N_Grass>>, <<K_fir, N_Fire>>,
      <<K_eletric, N_Electric>>, <<K_Charmanderr, N_Charmander>>,
      <<K_GaryOak, N_GaryOak>>, <<K_AshKetchum, N_AshKetchum>>,
      <<K_ProfOak, N_ProfOak>>, <<K_Poision, N_Poison>> }

MisspellingKeys == {p[1] : p \in misspellings}

\* dict.get(key, default) on the correction mapping
misspellings_get(key, default) ==
    IF key \in MisspellingKeys
    THEN (CHOOSE p \in misspellings : p[1] = key)[2]
    ELSE default

tables == <<"pokemon", "types", "abilities", "trainers">>

dirty_data == {D_Remove, D_Dashes, D_Empty, D_Marks}

-----------------------------------------------------------------------------
(* The store *)

Row(i, n) == [id |-> i, name |-> n]
PRow(i, n, t1, t2) == [id |-> i, name |-> n, type1_id |-> t1, type2_id |-> t2]

\* type1_id/type2_id of a pokemon row holding NULL
NoId == 0

\* The rows of the test fixture, followed by the rows the cleaning test inserts
SeedStore ==
    [ pokemon   |-> { PRow(1, N_Charmander, 1, NoId), PRow(2, N_Squirtle, 2, NoId),
                      PRow(3, K_Pikuchu, 1, NoId), PRow(4, K_Charmanderr, 1, NoId) },
      types     |-> { Row(1, N_Fire), Row(2, N_Water), Row(3, N_Grass),
                      Row(4, K_gras), Row(5, K_fir) },
      abilities |-> { Row(1, N_Blaze), Row(2, N_Torrent),
                      Row(3, K_eletric), Row(4, D_Dashes) },
      trainers  |-> { Row(1, K_AshKetchum), Row(2, N_Misty),
                      Row(3, K_GaryOak), Row(4, K_AshKetchum) },
      pokemon_abilities |-> { [pokemon_id |-> 1, ability_id |-> 1],
                              [pokemon_id |-> 2, ability_id |-> 2] },
      trainer_pokemon_abilities |->
          { [id |-> 1, pokemon_id |-> 1, trainer_id |-> 1, ability_id |-> 1],
            [id |-> 2, pokemon_id |-> 2, trainer_id |-> 2, ability_id |-> 2] } ]

\* Names a seed load can leave in a table: wrong case, padding, placeholders
\* that only match the dirty set after normalisation, a NULL name
ExtraNames ==
    { <<"p","i","k","u","c","h","u">>,
      <<" ","P","i","k","u","c","h","u">>,
      <<"P","I","K","A","C","H","U">>,
      N_Pikachu,
      <<"\t","M","i","s","t","y"," ">>,
      <<" ","?","?","?">>,
      <<"r","e","m","o","v","e"," ","t","h","i","s"," ",
        "a","b","i","l","i","t","y">>,
      <<" "," ">>,
      NULL }

MaxId(rows) == IF rows = {} THEN 0 ELSE SetMax({r.id : r \in rows})

\* the rows of table t of store s followed by rows named names[1], names[2], ...
WithExtra(s, t, names) ==
    LET base == MaxId(s[t])
        new  == { IF t = "pokemon"
                  THEN PRow(base + i, names[i], NoId, NoId)
                  ELSE Row(base + i, names[i]) : i \in 1..Len(names) }
    IN  [s EXCEPT ![t] = @ \cup new]

NameSeqs(n) == UNION { [1..k -> ExtraNames] : k \in 0..n }

TableSet == {tables[i] : i \in 1..Len(tables)}

NoHistory == [t \in TableSet |-> {}]

NoRecord == [name |-> <<>>, types |-> <<>>, abilities |-> <<>>]
\* the locals of create_pokemon before its first statement; lastrowid is the
\* cursor's attribute, last_insert_rowid the connection's (per connection,
\* 0 until its first INSERT); existed records which branch the upsert took
NoLocals == [type1_id |-> NoId, type2_id |-> NoId, pokemon_id |-> NoId,
             k |-> 1, ability_id |-> NoId, trainer_id |-> NoId,
             lastrowid |-> NoId, last_insert_rowid |-> NoId,
             existed |-> FALSE]
NoResponse == [status |-> 0, id |-> NoId]
NoLookup == [name |-> <<>>, status |-> 0, body |-> {}]

ServeIdle ==
    /\ ipc = "idle"
    /\ poke_data = NoRecord
    /\ loc = NoLocals
    /\ response = NoResponse
    /\ ingests = 0
    /\ lookup = NoLookup

-----------------------------------------------------------------------------
(* clean_database *)

\* DELETE FROM t WHERE name = ?, once for each dirty value
Purge(rows) == {r \in rows : ~(\E d \in dirty_data : SqlEq(r.name, d))}

\* mutant: the mapping is looked up with the untrimmed name
cleaned_name_untrimmed_key(name) == capitalize(misspellings_get(name, strip(name)))

\* misspellings.get(name.strip(), name.strip()).capitalize()
cleaned_name(name) == capitalize(misspellings_get(strip(name), strip(name)))

\* ids whose name.strip() raises AttributeError: the name is None
NullIds(rows) == {r.id : r \in {x \in rows : x.name = NULL}}

\* The loop over fetchall(): each row is updated when its cleaned name
\* differs; the loop stops at the first row (in rowid order) with a None name
Correct(rows) ==
    LET stop == IF NullIds(rows) = {} THEN MaxId(rows) + 1 ELSE SetMin(NullIds(rows))
    IN  { IF r.id < stop /\ cleaned_name(r.name) # r.name
          THEN [r EXCEPT !.name = cleaned_name(r.name)]
          ELSE r : r \in rows }

\* mutant: MAX(rowid) is kept instead of MIN(rowid)
DedupKeepMax(rows) ==
    { r \in rows :
        r.id = SetMax({q.id : q \in {x \in rows : SqlTrim(x.name) = SqlTrim(r.name)}}) }

\* DELETE FROM t WHERE rowid NOT IN (SELECT MIN(rowid) FROM t GROUP BY TRIM(name))
Dedup(rows) ==
    { r \in rows :
        r.id = SetMin({q.id : q \in {x \in rows : SqlTrim(x.name) = SqlTrim(r.name)}}) }

\* clean_database(conn) is called on a connection with no pending writes
CleanCall ==
    /\ cpc \in {"idle", "committed", "rolledback", "closed"}
    /\ calls < MaxCalls
    /\ cpc' = "purge"
    /\ table_i' = 1
    /\ calls' = calls + 1
    /\ snap' = db
    /\ tx' = db
    /\ preDedup' = NoHistory
    /\ UNCHANGED <<db, okRuns>>
    /\ UNCHANGED serveVars

CleanPurge ==
    /\ cpc = "purge"
    /\ tx' = [tx EXCEPT ![tables[table_i]] = Purge(@)]
    /\ cpc' = "correct"
    /\ UNCHANGED <<db, table_i, calls, okRuns, snap, preDedup>>
    /\ UNCHANGED serveVars

CleanCorrect ==
    /\ cpc = "correct"
    /\ tx' = [tx EXCEPT ![tables[table_i]] = Correct(@)]
    /\ cpc' = IF NullIds(tx[tables[table_i]]) = {} THEN "dedup" ELSE "raised"
    /\ UNCHANGED <<db, table_i, calls, okRuns, snap, preDedup>>
    /\ UNCHANGED serveVars

\* mutant: conn.commit() sits inside the loop over the tables
CleanDedupCommits ==
    /\ cpc = "dedup"
    /\ preDedup' = [preDedup EXCEPT ![tables[table_i]] = tx[tables[table_i]]]
    /\ tx' = [tx EXCEPT ![tables[table_i]] = Dedup(@)]
    /\ db' = tx'
    /\ IF table_i < Len(tables)
       THEN cpc' = "purge" /\ table_i' = table_i + 1
       ELSE cpc' = "commit" /\ table_i' = table_i
    /\ UNCHANGED <<calls, okRuns, snap>>
    /\ UNCHANGED serveVars

CleanDedup ==
    /\ cpc = "dedup"
    /\ preDedup' = [preDedup EXCEPT ![tables[table_i]] = tx[tables[table_i]]]
    /\ tx' = [tx EXCEPT ![tables[table_i]] = Dedup(@)]
    /\ IF table_i < Len(tables)
       THEN cpc' = "purge" /\ table_i' = table_i + 1
       ELSE cpc' = "commit" /\ table_i' = table_i
    /\ UNCHANGED <<db, calls, okRuns, snap>>
    /\ UNCHANGED serveVars

\* conn.commit() after the loop over all four tables
CleanCommit ==
    /\ cpc = "commit"
    /\ db' = tx
    /\ cpc' = "committed"
    /\ okRuns' = okRuns + 1
    /\ UNCHANGED <<tx, table_i, calls, snap, preDedup>>
    /\ UNCHANGED serveVars

\* A statement or the commit raises sqlite3.Error: except -> conn.rollback()
CleanStoreError ==
    /\ cpc \in {"purge", "correct", "dedup", "commit"}
    /\ tx' = db
    /\ cpc' = "rolledback"
    /\ UNCHANGED <<db, table_i, calls, okRuns, snap, preDedup>>
    /\ UNCHANGED serveVars

\* AttributeError is not an sqlite3.Error: it leaves clean_database with the
\* transaction open; the caller's connection is closed (or the process ends)
\* without a commit, which discards the pending writes
CleanRaisedClose ==
    /\ cpc = "raised"
    /\ tx' = db
    /\ cpc' = "closed"
    /\ UNCHANGED <<db, table_i, calls, okRuns, snap, preDedup>>
    /\ UNCHANGED serveVars

InitClean ==
    /\ \E t \in TableSet : \E names \in NameSeqs(MaxExtra) :
          db = WithExtra(SeedStore, t, names)
    /\ tx = db
    /\ cpc = "idle"
    /\ table_i = 1
    /\ calls = 0
    /\ okRuns = 0
    /\ snap = db
    /\ preDedup = NoHistory
    /\ ServeIdle

NextClean ==
    \/ CleanCall
    \/ CleanPurge
    \/ CleanCorrect
    \/ CleanDedup
    \/ CleanCommit
    \/ CleanStoreError
    \/ CleanRaisedClose

SpecClean == InitClean /\ [][NextClean]_vars

-----------------------------------------------------------------------------
(* Properties of clean_database (checked under SpecClean) *)

\* the row of table t that had identifier i when the current call started
OrigRow(t, i) == CHOOSE o \in snap[t] : o.id = i

\* the whole routine applied to a store: every table purged, corrected, deduplicated
CleanAll(s) ==
    [f \in DOMAIN s |->
        IF f \in TableSet THEN Dedup(Correct(Purge(s[f]))) ELSE s[f]]

\* C3: running clean_database twice in succession changes no row on the
\* second run: when a run commits on a store that an earlier run already
\* cleaned, the committed tables equal the tables before that run.
C3_SecondRunChangesNothing ==
    (cpc = "committed" /\ okRuns >= 2) => db = snap

\* C4: after a successful clean_database run no row of the four tables has a
\* name in the dirty-value set, also when the stored name only becomes a
\* dirty value by trimming or capitalisation.
C4_NoDirtyNameAfterClean ==
    cpc = "committed" =>
        \A t \in TableSet : \A r \in db[t] : r.name \notin dirty_data

\* C5: after a successful run, in each table no two rows share a trimmed
\* name (case-sensitive), and of every group of pre-dedup rows with the same
\* normalised name exactly one row survives: the one with the smallest rowid.
C5_DedupInvariant ==
    cpc = "committed" =>
        \A t \in TableSet :
            /\ \A r1, r2 \in db[t] :
                  SqlTrim(r1.name) = SqlTrim(r2.name) => r1 = r2
            /\ \A p \in preDedup[t] :
                  LET group == {q \in preDedup[t] : q.name = p.name}
                      alive == {q \in db[t] : q.name = p.name}
                  IN  /\ Cardinality(alive) = 1
                      /\ alive \subseteq group
                      /\ \A q \in alive : \A g \in group : q.id <= g.id

\* a committed run in which a group of several rows was reduced to its
\* lowest-rowid member
C5_Witness ==
    /\ cpc = "committed"
    /\ \E t \in TableSet : \E p, q \in preDedup[t] :
          /\ p.name = q.name
          /\ p.id < q.id
          /\ p \in db[t]
          /\ q \notin db[t]

-----------------------------------------------------------------------------
(* The external data source *)

X_charmander  == <<"c","h","a","r","m","a","n","d","e","r">>
X_mr_mime     == <<"m","r","-","m","i","m","e">>
X_mew         == <<"m","e","w">>
X_fire        == <<"f","i","r","e">>
X_water       == <<"w","a","t","e","r">>
X_flying      == <<"f","l","y","i","n","g">>
X_psychic     == <<"p","s","y","c","h","i","c">>
X_blaze       == <<"b","l","a","z","e">>
X_solar_power == <<"s","o","l","a","r","-","p","o","w","e","r">>
X_soundproof  == <<"s","o","u","n","d","p","r","o","o","f">>

Record(n, ts, as) == [name |-> n, types |-> ts, abilities |-> as]

\* What response.json() can hold: the record of one name may differ between
\* two calls, types and abilities may be absent
ExternalRecords ==
    { Record(X_charmander, <<X_fire>>, <<X_blaze, X_solar_power>>),
      Record(X_charmander, <<X_fire, X_flying>>, <<X_blaze>>),
      Record(X_charmander, <<X_water>>, <<>>),
      Record(X_mr_mime, <<X_psychic, X_fire>>, <<X_soundproof>>),
      Record(X_mew, <<>>, <<>>) }

N_DefaultTrainer == <<"D","e","f","a","u","l","t"," ","T","r","a","i","n","e","r">>

\* A cleaned store the service starts on, with or without trainer rows
ServeStore(withTrainers) ==
    [ pokemon   |-> { PRow(1, N_Charmander, 1, 3), PRow(2, N_Squirtle, 2, NoId) },
      types     |-> { Row(1, N_Fire), Row(2, N_Water), Row(3, N_Grass) },
      abilities |-> { Row(1, N_Blaze), Row(2, N_Torrent) },
      trainers  |-> IF withTrainers
                    THEN { Row(1, K_AshKetchum), Row(2, N_Misty) }
                    ELSE {},
      pokemon_abilities |-> { [pokemon_id |-> 1, ability_id |-> 1],
                              [pokemon_id |-> 2, ability_id |-> 2] },
      trainer_pokemon_abilities |->
          IF withTrainers
          THEN { [id |-> 1, pokemon_id |-> 1, trainer_id |-> 1, ability_id |-> 1],
                 [id |-> 2, pokemon_id |-> 2, trainer_id |-> 2, ability_id |-> 2],
                 [id |-> 3, pokemon_id |-> 2, trainer_id |-> 1, ability_id |-> 2] }
          ELSE {} ]

\* The table trainer_pokemon that get_trainers_by_pokemon joins.  No
\* statement of the program creates or writes it, and the test database has
\* none: present tells whether the database file has the table, and when it
\* has, its rows start as the (trainer, pokemon) pairs of the ternary
\* association.
TrainerPokemonTable(s, present) ==
    [ present |-> present,
      rows    |-> IF present
                  THEN { [trainer_id |-> a.trainer_id, pokemon_id |-> a.pokemon_id] :
                             a \in s.trainer_pokemon_abilities }
                  ELSE {} ]

\* the store of ServeStore together with the table trainer_pokemon
ServeDatabase(withTrainers, present) ==
    [trainer_pokemon |-> TrainerPokemonTable(ServeStore(withTrainers), present)]
        @@ ServeStore(withTrainers)

-----------------------------------------------------------------------------
(* get_or_create_id and create_pokemon *)

\* SELECT ... FROM t WHERE LOWER(name) = LOWER(?)
RowsNamed(rows, name) ==
    {r \in rows : SqlEq(SqlLower(r.name), SqlLower(name))}

\* mutant: the SELECT compares the names as stored (name = ?)
GetOrCreateCaseSensitive(s, t, name) ==
    LET hit == {r \in s[t] : SqlEq(r.name, name)}
        new == MaxId(s[t]) + 1
    IN  IF hit # {}
        THEN [store |-> s, id |-> SetMin({r.id : r \in hit}), inserted |-> FALSE]
        ELSE [store |-> [s EXCEPT ![t] = @ \cup {Row(new, title(name))}],
              id |-> new, inserted |-> TRUE]

\* get_or_create_id(conn, table, name): the id of the first row whose name
\* matches case-insensitively, or of a new row named name.title().  inserted
\* tells whether the INSERT ran (it is followed by conn.commit()).
GetOrCreate(s, t, name) ==
    LET hit == RowsNamed(s[t], name)
        new == MaxId(s[t]) + 1
    IN  IF hit # {}
        THEN [store |-> s, id |-> SetMin({r.id : r \in hit}), inserted |-> FALSE]
        ELSE [store |-> [s EXCEPT ![t] = @ \cup {Row(new, title(name))}],
              id |-> new, inserted |-> TRUE]

\* The effect of one get_or_create_id call made at position ipc on the
\* connection: its INSERT commits everything pending on the connection and
\* moves the connection's last_insert_rowid
ResolveStep(t, name, field, next) ==
    LET g == GetOrCreate(tx, t, name)
    IN  /\ tx' = g.store
        /\ db' = IF g.inserted THEN g.store ELSE db
        /\ loc' = [loc EXCEPT ![field] = g.id,
                              !.last_insert_rowid = IF g.inserted THEN g.id ELSE @]
        /\ ipc' = next

\* The external fetch succeeded and connect_db() returned a connection
IngestFetch ==
    /\ ipc \in {"idle", "done"}
    /\ ingests < MaxIngests
    /\ \E rec \in ExternalRecords :
          /\ poke_data' = rec
          /\ ipc' = IF Len(rec.types) > 0 THEN "type1" ELSE "pokemon"
    /\ ingests' = ingests + 1
    /\ loc' = NoLocals
    /\ response' = NoResponse
    /\ snap' = db
    /\ tx' = db
    /\ UNCHANGED <<db, lookup>>
    /\ UNCHANGED cleanVars

\* The external source answers 404, or the request fails otherwise
IngestFetchFails ==
    /\ ipc \in {"idle", "done"}
    /\ ingests < MaxIngests
    /\ \E code \in {404, 500} : response' = [status |-> code, id |-> NoId]
    /\ poke_data' = NoRecord
    /\ loc' = NoLocals
    /\ ingests' = ingests + 1
    /\ ipc' = "done"
    /\ snap' = db
    /\ tx' = db
    /\ UNCHANGED <<db, lookup>>
    /\ UNCHANGED cleanVars

IngestType1 ==
    /\ ipc = "type1"
    /\ ResolveStep("types", poke_data.types[1], "type1_id",
                   IF Len(poke_data.types) > 1 THEN "type2" ELSE "pokemon")
    /\ UNCHANGED <<poke_data, response, ingests, snap, lookup>>
    /\ UNCHANGED cleanVars

IngestType2 ==
    /\ ipc = "type2"
    /\ ResolveStep("types", poke_data.types[2], "type2_id", "pokemon")
    /\ UNCHANGED <<poke_data, response, ingests, snap, lookup>>
    /\ UNCHANGED cleanVars

\* where the handler goes after the upsert and after each association row
AfterAbility(k) == IF k <= Len(poke_data.abilities) THEN "ability" ELSE "return"

\* The SELECT on pokemon, then UPDATE (left uncommitted) or INSERT and commit.
\* Every execute on the cursor sets cursor.lastrowid to the connection's
\* last_insert_rowid.
IngestPokemon ==
    /\ ipc = "pokemon"
    /\ LET pokemon_name_proper == title(poke_data.name)
           hit == RowsNamed(tx.pokemon, pokemon_name_proper)
           old == SetMin({r.id : r \in hit})
           new == MaxId(tx.pokemon) + 1
       IN  IF hit # {}
           THEN /\ tx' = [tx EXCEPT !.pokemon =
                            { IF r.id = old
                              THEN [r EXCEPT !.type1_id = loc.type1_id,
                                             !.type2_id = loc.type2_id]
                              ELSE r : r \in @ }]
                /\ db' = db
                /\ loc' = [loc EXCEPT !.pokemon_id = old,
                                      !.existed = TRUE,
                                      !.lastrowid = loc.last_insert_rowid]
           ELSE /\ tx' = [tx EXCEPT !.pokemon = @ \cup
                            {PRow(new, pokemon_name_proper, loc.type1_id, loc.type2_id)}]
                /\ db' = tx'
                /\ loc' = [loc EXCEPT !.pokemon_id = new,
                                      !.existed = FALSE,
                                      !.lastrowid = new,
                                      !.last_insert_rowid = new]
    /\ ipc' = AfterAbility(1)
    /\ UNCHANGED <<poke_data, response, ingests, snap, lookup>>
    /\ UNCHANGED cleanVars

\* ability_id = get_or_create_id(conn, "abilities", name.title())
IngestAbility ==
    /\ ipc = "ability"
    /\ ResolveStep("abilities", title(poke_data.abilities[loc.k]), "ability_id", "link")
    /\ UNCHANGED <<poke_data, response, ingests, snap, lookup>>
    /\ UNCHANGED cleanVars

\* INSERT OR IGNORE INTO pokemon_abilities, then conn.commit().  The table is
\* a set of (pokemon_id, ability_id) pairs; the rowid this INSERT leaves in
\* lastrowid is overwritten by the association INSERT before it is read.
IngestLink ==
    /\ ipc = "link"
    /\ tx' = [tx EXCEPT !.pokemon_abilities = @ \cup
                {[pokemon_id |-> loc.pokemon_id, ability_id |-> loc.ability_id]}]
    /\ db' = tx'
    /\ ipc' = "trainer"
    /\ UNCHANGED <<poke_data, loc, response, ingests, snap, lookup>>
    /\ UNCHANGED cleanVars

\* SELECT id FROM trainers ORDER BY RANDOM() LIMIT 1: any trainer row
IngestTrainerRandom ==
    /\ ipc = "trainer"
    /\ \E r \in tx.trainers : loc' = [loc EXCEPT !.trainer_id = r.id]
    /\ ipc' = "assoc"
    /\ UNCHANGED <<db, tx, poke_data, response, ingests, snap, lookup>>
    /\ UNCHANGED cleanVars

\* no trainer row at all: get_or_create_id(conn, "trainers", "Default Trainer")
IngestTrainerDefault ==
    /\ ipc = "trainer"
    /\ tx.trainers = {}
    /\ ResolveStep("trainers", N_DefaultTrainer, "trainer_id", "assoc")
    /\ UNCHANGED <<poke_data, response, ingests, snap, lookup>>
    /\ UNCHANGED cleanVars

\* mutant: the association INSERT skips a (pokemon, trainer, ability) triple
\* the table already holds
IngestAssocDeduplicated ==
    /\ ipc = "assoc"
    /\ LET new == MaxId(tx.trainer_pokemon_abilities) + 1
           dup == \E a \in tx.trainer_pokemon_abilities :
                      /\ a.pokemon_id = loc.pokemon_id
                      /\ a.trainer_id = loc.trainer_id
                      /\ a.ability_id = loc.ability_id
       IN  /\ tx' = IF dup THEN tx
                    ELSE [tx EXCEPT !.trainer_pokemon_abilities = @ \cup
                            {[id |-> new, pokemon_id |-> loc.pokemon_id,
                              trainer_id |-> loc.trainer_id,
                              ability_id |-> loc.ability_id]}]
           /\ db' = tx'
           /\ loc' = [loc EXCEPT !.k = @ + 1,
                                 !.lastrowid = IF dup THEN @ ELSE new,
                                 !.last_insert_rowid = IF dup THEN @ ELSE new]
    /\ ipc' = AfterAbility(loc.k + 1)
    /\ UNCHANGED <<poke_data, response, ingests, snap, lookup>>
    /\ UNCHANGED cleanVars

\* INSERT INTO trainer_pokemon_abilities, then conn.commit()
IngestAssoc ==
    /\ ipc = "assoc"
    /\ LET new == MaxId(tx.trainer_pokemon_abilities) + 1
       IN  /\ tx' = [tx EXCEPT !.trainer_pokemon_abilities = @ \cup
                       {[id |-> new, pokemon_id |-> loc.pokemon_id,
                         trainer_id |-> loc.trainer_id, ability_id |-> loc.ability_id]}]
           /\ db' = tx'
           /\ loc' = [loc EXCEPT !.k = @ + 1,
                                 !.lastrowid = new,
                                 !.last_insert_rowid = new]
    /\ ipc' = AfterAbility(loc.k + 1)
    /\ UNCHANGED <<poke_data, response, ingests, snap, lookup>>
    /\ UNCHANGED cleanVars

\* return {"id": cursor.lastrowid}; finally conn.close() drops what the
\* connection has not committed
IngestReturn ==
    /\ ipc = "return"
    /\ response' = [status |-> 200, id |-> loc.lastrowid]
    /\ tx' = db
    /\ ipc' = "done"
    /\ UNCHANGED <<db, poke_data, loc, ingests, snap, lookup>>
    /\ UNCHANGED cleanVars

\* A statement or a commit raises sqlite3.Error: conn.rollback(), HTTP 500,
\* conn.close()
IngestStoreError ==
    /\ ipc \in {"type1", "type2", "pokemon", "ability", "link", "trainer", "assoc"}
    /\ tx' = db
    /\ response' = [status |-> 500, id |-> NoId]
    /\ ipc' = "done"
    /\ UNCHANGED <<db, poke_data, loc, ingests, snap, lookup>>
    /\ UNCHANGED cleanVars

-----------------------------------------------------------------------------
(* get_pokemon_by_ability *)

LookupNames ==
    { X_blaze, N_Blaze, <<"B","L","A","Z","E">>, X_soundproof, <<"z">> }

\* the names of the pokemon rows joined to the abilities rows through
\* pokemon_abilities (the order of the rows is not modelled)
PokemonWithAbility(s, abilityRows) ==
    { p.name : p \in { q \in s.pokemon :
        \E a \in abilityRows :
            [pokemon_id |-> q.id, ability_id |-> a.id] \in s.pokemon_abilities } }

\* The handler's answer on store s.  The first execute is given
\* (ability_name.lower()), a str and not a tuple: sqlite3 takes each of its
\* characters as one parameter and raises ProgrammingError (an sqlite3.Error,
\* answered with 500) unless the statement's single "?" gets exactly one.
AbilityLookup(s, ability_name) ==
    LET parameters == lower(ability_name)
        ability == RowsNamed(s.abilities, parameters)
        pokemon_list == PokemonWithAbility(s, RowsNamed(s.abilities, lower(ability_name)))
    IN  IF Len(parameters) # 1
        THEN [status |-> 500, body |-> {}]
        ELSE IF ability = {} \/ pokemon_list = {}
        THEN [status |-> 404, body |-> {}]
        ELSE [status |-> 200, body |-> pokemon_list]

\* The endpoint runs on its own connection and reads the committed store
GetPokemonByAbility ==
    /\ \E n \in LookupNames :
          LET r == AbilityLookup(db, n)
          IN  lookup' = [name |-> n, status |-> r.status, body |-> r.body]
    /\ UNCHANGED <<db, tx, snap>>
    /\ UNCHANGED ingestVars
    /\ UNCHANGED cleanVars

-----------------------------------------------------------------------------
(* get_trainers_by_pokemon *)

TrainerLookupNames == { N_Charmander, X_charmander, X_mr_mime }

\* The handler's answer on store s: 404 when no pokemon row matches; then
\* the SELECT joining trainers, trainer_pokemon and pokemon, which raises
\* sqlite3.OperationalError (answered with 500) when the database has no
\* table trainer_pokemon; 404 when the join is empty.  The body is the set
\* of the names returned (order and repetitions are not modelled).
TrainerLookup(s, pokemon_name) ==
    LET pokemon_result == RowsNamed(s.pokemon, lower(pokemon_name))
        trainers_list ==
            { t.name : t \in { u \in s.trainers :
                \E l \in s.trainer_pokemon.rows :
                    /\ l.trainer_id = u.id
                    /\ \E p \in RowsNamed(s.pokemon, lower(pokemon_name)) :
                          l.pokemon_id = p.id } }
    IN  IF pokemon_result = {}
        THEN [status |-> 404, body |-> {}]
        ELSE IF ~s.trainer_pokemon.present
        THEN [status |-> 500, body |-> {}]
        ELSE IF trainers_list = {}
        THEN [status |-> 404, body |-> {}]
        ELSE [status |-> 200, body |-> trainers_list]

\* The endpoint runs on its own connection and reads the committed store
GetTrainersByPokemon ==
    /\ \E n \in TrainerLookupNames :
          LET r == TrainerLookup(db, n)
          IN  lookup' = [name |-> n, status |-> r.status, body |-> r.body]
    /\ UNCHANGED <<db, tx, snap>>
    /\ UNCHANGED ingestVars
    /\ UNCHANGED cleanVars

-----------------------------------------------------------------------------
(* The service *)

InitServe ==
    /\ \E withTrainers \in BOOLEAN : db = ServeStore(withTrainers)
    /\ tx = db
    /\ cpc = "idle"
    /\ table_i = 1
    /\ calls = 0
    /\ okRuns = 0
    /\ snap = db
    /\ preDedup = NoHistory
    /\ ServeIdle

NextServe ==
    \/ IngestFetch
    \/ IngestFetchFails
    \/ IngestType1
    \/ IngestType2
    \/ IngestPokemon
    \/ IngestAbility
    \/ IngestLink
    \/ IngestTrainerRandom
    \/ IngestTrainerDefault
    \/ IngestAssoc
    \/ IngestReturn
    \/ IngestStoreError
    \/ GetPokemonByAbility

SpecServe == InitServe /\ [][NextServe]_vars

\* The ingestion endpoint together with the trainer lookup, on a database
\* file with or without the table trainer_pokemon
InitTrainers ==
    /\ \E withTrainers, present \in BOOLEAN :
          db = ServeDatabase(withTrainers, present)
    /\ tx = db
    /\ cpc = "idle"
    /\ table_i = 1
    /\ calls = 0
    /\ okRuns = 0
    /\ snap = db
    /\ preDedup = NoHistory
    /\ ServeIdle

NextTrainers ==
    \/ IngestFetch
    \/ IngestFetchFails
    \/ IngestType1
    \/ IngestType2
    \/ IngestPokemon
    \/ IngestAbility
    \/ IngestLink
    \/ IngestTrainerRandom
    \/ IngestTrainerDefault
    \/ IngestAssoc
    \/ IngestReturn
    \/ IngestStoreError
    \/ GetTrainersByPokemon

SpecTrainers == InitTrainers /\ [][NextTrainers]_vars

-----------------------------------------------------------------------------
(* Properties of the service (checked under SpecServe) *)

\* a create_pokemon call that fetched its record has finished with status st
IngestEnded(st) == ipc = "done" /\ response.status = st /\ poke_data # NoRecord

\* the committed pokemon rows whose name matches the fetched record's name
\* case-insensitively
IngestedRows == {r \in db.pokemon : lower(r.name) = lower(poke_data.name)}

\* the identifier of the committed types row matching the record's i-th
\* type, NULL when the record has no i-th type
ResolvedType(i, id) ==
    IF i <= Len(poke_data.types)
    THEN \E t \in db.types : lower(t.name) = lower(poke_data.types[i]) /\ t.id = id
    ELSE id = NoId

\* C1: every successful ingest returns as "id" the identifier of the
\* Pokemon row whose name matches the external record's name
\* case-insensitively.
C1_ReturnsPokemonId ==
    IngestEnded(200) => \E r \in IngestedRows : response.id = r.id

\* C2: starting from tables whose names are unique case-insensitively,
\* ingest calls keep them so in pokemon, types, abilities and trainers;
\* exactly one Pokemon row exists for an ingested name; and a row a call
\* inserted has no case-insensitive match among the rows the call found.
C2_NamesStayUnique ==
    /\ \A s \in {db, tx} : \A t \in TableSet : \A r1, r2 \in s[t] :
          lower(r1.name) = lower(r2.name) => r1 = r2
    /\ IngestEnded(200) => Cardinality(IngestedRows) = 1
    /\ \A t \in TableSet : \A r \in db[t] :
          (\A o \in snap[t] : o.id # r.id) =>
              (\A o \in snap[t] : lower(o.name) # lower(r.name))

\* a successful ingest that found a type under another casing ("fire" for
\* the stored "Fire") and inserted one that was absent ("Psychic")
C2_Witness ==
    /\ IngestEnded(200)
    /\ poke_data.name = X_mr_mime
    /\ \E t \in snap.types : t.name # X_fire /\ lower(t.name) = X_fire
    /\ \E t \in db.types : t \notin snap.types /\ lower(t.name) = X_psychic
    /\ Cardinality(db.types) = Cardinality(snap.types) + 1

\* C8: after an ingest call that failed with a store error, the committed
\* store equals the store before the call.
C8_FailedIngestRollsBack ==
    IngestEnded(500) => db = snap

\* C9: after a successful ingest of a name whose Pokemon row already
\* existed, the committed row's type1 and type2 references are the Type
\* identifiers of the external record's types, type2 being NULL when the
\* record has one type; for every record, also one without abilities.
C9_TypesOverwritten ==
    (IngestEnded(200) /\ loc.existed) =>
        \A r \in IngestedRows :
            ResolvedType(1, r.type1_id) /\ ResolvedType(2, r.type2_id)

\* the answer the endpoint owes to a request for ability_name on store s:
\* 200 with the linked names when a matching ability with linked Pokemon
\* exists, 404 when no ability matches
OwedAnswer(s, ability_name, status, body) ==
    LET match  == {a \in s.abilities : lower(a.name) = lower(ability_name)}
        linked == {p \in s.pokemon : \E a \in match :
                      [pokemon_id |-> p.id, ability_id |-> a.id]
                          \in s.pokemon_abilities}
    IN  /\ (match # {} /\ linked # {}) =>
              (status = 200 /\ body = {p.name : p \in linked})
        /\ match = {} => status = 404

\* C10: GET /pokemon/ability/{name} answers 200 with the names of the
\* linked Pokemon when an ability matching the name case-insensitively
\* exists and has linked Pokemon, and 404 when no such ability exists,
\* whatever the casing and the length of the name: every step that answers
\* a request leaves the answer owed on the store it read.
C10_AbilityLookup ==
    [][lookup' # lookup =>
          OwedAnswer(db, lookup'.name, lookup'.status, lookup'.body)]_vars

\* the association rows committed since the current call started
NewAssocRows ==
    {a \in db.trainer_pokemon_abilities :
        \A o \in snap.trainer_pokemon_abilities : o.id # a.id}

\* association row a references the abilities row matching the record's
\* j-th ability
ForAbility(a, j) ==
    \E b \in db.abilities :
        b.id = a.ability_id /\ lower(b.name) = lower(poke_data.abilities[j])

\* C12: a successful ingest of a record with k abilities adds exactly k
\* rows to trainer_pokemon_abilities and removes none, whatever the table
\* held (so n repetitions add n*k rows); the new rows are one per ability
\* of the record, each referencing the ingested Pokemon row, that ability's
\* row and an existing trainer row; a "Default Trainer" row is inserted only
\* by a call that found the trainers table empty, and at most one exists.
C12_AssociationRows ==
    /\ IngestEnded(200) =>
          /\ snap.trainer_pokemon_abilities \subseteq db.trainer_pokemon_abilities
          /\ Cardinality(NewAssocRows) = Len(poke_data.abilities)
          /\ \A j \in 1..Len(poke_data.abilities) :
                Cardinality({a \in NewAssocRows : ForAbility(a, j)}) = 1
          /\ \A a \in NewAssocRows :
                /\ \E p \in IngestedRows : p.id = a.pokemon_id
                /\ \E j \in 1..Len(poke_data.abilities) : ForAbility(a, j)
                /\ \E t \in db.trainers : t.id = a.trainer_id
    /\ \A s \in {db, tx} :
          Cardinality(RowsNamed(s.trainers, N_DefaultTrainer)) <= 1
    /\ \A t \in RowsNamed(db.trainers, N_DefaultTrainer) :
          t \notin snap.trainers => snap.trainers = {}

\* the same record with two abilities ingested twice on a store that had no
\* trainer: the first call created "Default Trainer", the second call found
\* it and added two rows repeating the triples of the first, four in all
C12_Witness ==
    /\ IngestEnded(200)
    /\ ingests = 2
    /\ Len(poke_data.abilities) = 2
    /\ snap.trainers = {Row(1, N_DefaultTrainer)}
    /\ Cardinality(NewAssocRows) = 2
    /\ Cardinality(db.trainer_pokemon_abilities) = 4
    /\ \A a \in NewAssocRows : \E o \in snap.trainer_pokemon_abilities :
          /\ o.pokemon_id = a.pokemon_id
          /\ o.trainer_id = a.trainer_id
          /\ o.ability_id = a.ability_id

-----------------------------------------------------------------------------
(* Properties of the trainer lookup (checked under SpecTrainers) *)

\* the names of the trainers that have a row of the ternary association
\* with a pokemon row matching pokemon_name case-insensitively
TrainersOf(s, pokemon_name) ==
    { t.name : t \in { u \in s.trainers :
        \E a \in s.trainer_pokemon_abilities :
            /\ a.trainer_id = u.id
            /\ \E p \in s.pokemon :
                  lower(p.name) = lower(pokemon_name) /\ a.pokemon_id = p.id } }

\* C11: GET /trainers/pokemon/{name} answers from the ternary association:
\* every step that answers a trainer request returns exactly the names of
\* the trainers that have a trainer_pokemon_abilities row with the named
\* Pokemon on the store it read, and so, after a successful ingest of a
\* record with at least one ability, a lookup for the ingested name returns
\* the trainer that ingest assigned.
C11_TrainerLookup ==
    [][lookup' # lookup =>
          /\ lookup'.body = TrainersOf(db, lookup'.name)
          /\ ( /\ IngestEnded(200)
               /\ Len(poke_data.abilities) >= 1
               /\ lower(lookup'.name) = lower(poke_data.name) ) =>
                  \E t \in db.trainers :
                      t.id = loc.trainer_id /\ t.name \in lookup'.body]_vars

====
